---- MODULE Spec2Model ----
(***************************************************************************)
(* Model of the consensus engine (src/consensus/engine.go): the three      *)
(* block pointers, the epoch, the inbound queue, the finalized-blocks      *)
(* stream and the main loop.  The block tree, the two strategies and the   *)
(* epoch manager are other packages of the repository; they are modelled   *)
(* from the specification (sections 4.1, 4.3, 4.5, 4.6) and are marked so. *)
(* With it: the header hash of package core (src/core/block.go) and the    *)
(* rpc call BroadcastRawTransaction (src/unnamed/part_003), and the         *)
(* mempool's handler of network messages (src/unnamed/part_000).           *)
(***************************************************************************)
EXTENDS Integers, Sequences, FiniteSets, TLC

(* ------------------------------ bounds -------------------------------- *)
\* Blocks that may ever be proposed are 1..MaxBlock; block 0 is the root.
MaxBlock == 5
\* Scaled-down capacity of the inbound queue (the code makes it 5000).
IncomingCap == 2
\* The producers that fill the inbound queue send messages about blocks
\* 1..QueueBlocks.
QueueBlocks == 1
\* The producer of the fair specification sends messages about blocks
\* 1..LiveBlocks.
LiveBlocks == 2
\* Scaled-down capacity of the finalized-blocks stream (the code: 5000).
FinalizedCap == 2
\* The epoch manager's timer stops ticking at this epoch.
MaxEpoch == 2
\* Size of the validator set the leader rotates over.
NumValidators == 3
\* Strategy instances that may replace the default ones are 1..NumStrategies.
NumStrategies == 1
\* The Epoch and the Height written into a block header are 0..MaxField.
MaxField == 1
\* A block carries at most MaxTxs transactions.
MaxTxs == 1
\* The tx_bytes argument of BroadcastRawTransaction has at most MaxHexLen
\* characters.
MaxHexLen == 2
\* The mempool holds at most MaxMempool transactions.
MaxMempool == 2
\* The bytes of a raw network message are 0..MaxByte.
MaxByte == 2
\* A raw network message has at most MaxRawLen bytes.
MaxRawLen == 3

(* --------------------------- the block tree --------------------------- *)
\* chain.Root
Root == 0

Blocks == 0..MaxBlock

\* Block 1 is the only child of the root; two branches leave block 1:
\* 2-4-6-... and 3-5-7-..., so that blocks 2 and 3 are siblings.
Parent(b) == IF b <= 1 THEN Root ELSE IF b <= 3 THEN 1 ELSE b - 2

\* Height of a block = height of its parent + 1; the root is at height 0.
Height(b) == IF b = Root THEN 0 ELSE (b \div 2) + 1

\* One proposal per epoch: block b was proposed in epoch b.
Epoch(b) == b

\* The block's hash: a digest of its header, distinct headers giving
\* distinct digests.
Hash(b) == <<Epoch(b), Height(b), Parent(b)>>

RECURSIVE IsAncestor(_, _)
\* is_ancestor(a, b): a lies on the parent chain of b (or is b).
IsAncestor(a, b) ==
    IF a = b THEN TRUE
    ELSE IF b = Root THEN FALSE
    ELSE IsAncestor(a, Parent(b))

\* FindDeepestDescendant: the end of the longest path that starts at `from`
\* among the blocks of the tree, ties broken by the highest epoch.
FindDeepestDescendant(chain, from) ==
    LET desc == {b \in chain : IsAncestor(from, b)}
        deepest == {b \in desc : \A c \in desc : Height(c) <= Height(b)}
    IN  CHOOSE b \in deepest : \A c \in deepest : Epoch(c) <= Epoch(b)

\* The rotating validator manager: the leader of an epoch.
Leader(e) == e % NumValidators

\* This node is the validator with index 1.
IsLeader(e) == Leader(e) = 1

\* BlockStatus: the three values of ExtendedBlock.Status, in iota order.
BlockStatusPending == 0

BlockStatusCommitted == 1

BlockStatusFinalized == 2

(* ------------------------ core: blocks and hashes --------------------- *)
\* The Block values of package core that the program holds.
BlockObjects == {"a", "b"}

\* The eight fields of BlockHeader that are encoded; the ninth, hash, is the
\* cache and is not exported.
HeaderFields ==
    <<"ChainID", "Epoch", "Height", "Parent", "TxHash", "StateHash",
      "Timestamp", "Proposer">>

\* common.Hash{}: the zero hash, for which IsEmpty() holds.
EmptyHash == <<>>

\* NewBlock(): a block with a zero header, no cached hash, no transaction.
NewBlock ==
    [ChainID |-> "", Epoch |-> 0, Height |-> 0, Parent |-> EmptyHash,
     TxHash |-> EmptyHash, StateHash |-> EmptyHash, Timestamp |-> 0,
     Proposer |-> 0, hash |-> EmptyHash, Txs |-> <<>>]

\* rlp.EncodeToBytes(h): the list of the exported fields, in their order.
rlpEncodeToBytes(h) == [i \in 1..Len(HeaderFields) |-> h[HeaderFields[i]]]

\* crypto.Keccak256Hash: a digest, never the zero hash, different for
\* different inputs.
Keccak256Hash(raw) == <<"keccak256", raw>>

\* BlockHeader.Hash: the value returned for the header h.
HeaderHash(h) ==
    IF h.hash = EmptyHash THEN Keccak256Hash(rlpEncodeToBytes(h)) ELSE h.hash

(* --------------------- rpc: BroadcastRawTransaction ------------------- *)
\* The characters of the tx_bytes argument: two hex digits and a character
\* that is no hex digit.
HexChars == {"0", "a", "g"}

\* The strings that may be passed as tx_bytes.
HexStrings == UNION {[1..n -> HexChars] : n \in 0..MaxHexLen}

\* The nil error.
Nil == "nil"

\* hex.fromHexChar: the value of a hex digit, -1 for any other character.
fromHexChar(c) == CASE c = "0" -> 0 [] c = "a" -> 10 [] OTHER -> -1

\* hex.DecodeString: the characters are taken two by two; a character that
\* is no hex digit, or a last character without a partner, is an error.
RECURSIVE hexDecode(_, _)
hexDecode(src, dst) ==
    IF Len(src) = 0 THEN [bytes |-> dst, err |-> Nil]
    ELSE IF Len(src) = 1
    THEN [bytes |-> dst,
          err |-> IF fromHexChar(src[1]) < 0 THEN "InvalidByteError"
                  ELSE "ErrLength"]
    ELSE IF fromHexChar(src[1]) < 0 \/ fromHexChar(src[2]) < 0
    THEN [bytes |-> dst, err |-> "InvalidByteError"]
    ELSE hexDecode(SubSeq(src, 3, Len(src)),
                   Append(dst, 16 * fromHexChar(src[1]) + fromHexChar(src[2])))

hexDecodeString(s) == hexDecode(s, <<>>)

\* Hash.Hex(): the hash written in hex after "0x".
Hex(h) == <<"0x", h>>

\* The empty string, the zero value of result.TxHash.
EmptyString == <<>>

\* Mempool.InsertTransaction: the mempool takes the transaction, or rejects
\* it (its own validity filtering, no room) with an error.
InsertTransaction(mp, tx, accept) ==
    IF accept /\ Len(mp) < MaxMempool
    THEN [mempool |-> Append(mp, tx), err |-> Nil]
    ELSE [mempool |-> mp, err |-> "rejected"]

\* BroadcastRawTransaction that goes on after a decoding error.
broadcastRawTransactionIgnoreError(mp, txBytes, txHash, accept) ==
    LET d == hexDecodeString(txBytes)
        r == InsertTransaction(mp, d.bytes, accept)
    IN  [mempool |-> r.mempool, TxHash |-> Hex(Keccak256Hash(d.bytes)),
         err |-> r.err, inserted |-> <<d.bytes>>]

\* BroadcastRawTransaction(args, result): mp is the mempool, txBytes is
\* args.TxBytes and txHash is result.TxHash as the caller passed it.  The
\* value holds the mempool and result.TxHash after the call, the error
\* returned and the arguments of the calls of InsertTransaction.
broadcastRawTransaction(mp, txBytes, txHash, accept) ==
    LET d == hexDecodeString(txBytes)
        r == InsertTransaction(mp, d.bytes, accept)
    IN  IF d.err # Nil
        THEN [mempool |-> mp, TxHash |-> txHash, err |-> d.err,
              inserted |-> <<>>]
        ELSE [mempool |-> r.mempool, TxHash |-> Hex(Keccak256Hash(d.bytes)),
              err |-> r.err, inserted |-> <<d.bytes>>]

(* ---------------- mempool: the handler of network messages ----------- *)
\* common.ChannelIDEnum: the channel of the handler and another one.
ChannelIDTransaction == "ChannelIDTransaction"

ChannelIDProposal == "ChannelIDProposal"

ChannelIDs == {ChannelIDTransaction, ChannelIDProposal}

\* The peers messages come from.
PeerIDs == {"peer1"}

\* The raw bytes that may arrive from the network.
RawMessages == UNION {[1..n -> 0..MaxByte] : n \in 0..MaxRawLen}

\* rlp.DecodeBytes(raw, &dataResponse): a frame is a length followed by as
\* many bytes, the payload; on any other input an error is returned and
\* dataResponse keeps its zero value.
rlpDecodeBytes(raw) ==
    IF Len(raw) >= 1 /\ Len(raw) = raw[1] + 1
    THEN [Payload |-> SubSeq(raw, 2, Len(raw)), err |-> Nil]
    ELSE [Payload |-> <<>>, err |-> "rlp: decoding error"]

\* Mempool.ProcessTransaction: the mempool takes the raw transaction, or
\* rejects it with an error.
ProcessTransaction(mp, mptx, accept) ==
    IF accept /\ Len(mp) < MaxMempool
    THEN [mempool |-> Append(mp, mptx.rawTransaction), err |-> Nil]
    ELSE [mempool |-> mp, err |-> "rejected"]

\* The zero value of types.Message: no content.
NoMessage ==
    [PeerID |-> "", ChannelID |-> "",
     Content |-> [type |-> "nil", rawTransaction |-> <<>>]]

\* MempoolMessageHandler.ParseMessage: the error of rlp.DecodeBytes is not
\* looked at; Content holds a mempoolTransaction value, not a pointer.
mmpParseMessage(peerID, channelID, rawMessageBytes) ==
    LET dataResponse == rlpDecodeBytes(rawMessageBytes)
        mptx == [type |-> "mempoolTransaction",
                 rawTransaction |-> dataResponse.Payload]
    IN  [message |-> [PeerID |-> peerID, ChannelID |-> channelID,
                      Content |-> mptx],
         err |-> Nil]

\* MempoolMessageHandler.HandleMessage: mp is the mempool.  The type
\* assertion message.Content.(*mempoolTransaction) has no second result: it
\* panics when Content does not hold a pointer.  The value holds the mempool
\* after the call, the error returned, whether the call panicked, and the
\* arguments of the calls of ProcessTransaction.
mmpHandleMessage(mp, message, accept) ==
    IF message.ChannelID # ChannelIDTransaction
    THEN [mempool |-> mp, err |-> "Invalid channel for MempoolMessageHandler",
          panic |-> FALSE, processed |-> <<>>]
    ELSE IF message.Content.type # "*mempoolTransaction"
    THEN [mempool |-> mp, err |-> "no return", panic |-> TRUE,
          processed |-> <<>>]
    ELSE LET r == ProcessTransaction(mp, message.Content, accept)
         IN  [mempool |-> r.mempool, err |-> r.err, panic |-> FALSE,
              processed |-> <<message.Content.rawTransaction>>]

(* ------------------------------ messages ------------------------------ *)
Proposal(b) == [type |-> "Proposal", block |-> b]
Vote(b) == [type |-> "Vote", block |-> b]
Unknown == [type |-> "Unknown", block |-> Root]

Messages ==
    {Proposal(b) : b \in 1..MaxBlock} \cup {Vote(b) : b \in 1..MaxBlock}
        \cup {Unknown}

\* The messages of the producers that fill the inbound queue.
QueueMessages == {m \in Messages : m.block <= QueueBlocks}

\* The messages of the producer of the fair specification.
LiveMessages == {m \in Messages : m.block <= LiveBlocks}

\* The value of the producer's slot when no producer is inside HandleMessage.
NoMsg == [type |-> "None", block |-> Root]

(* ------------------------------- state -------------------------------- *)
VARIABLES
    chain,                \* blocks of the tree (chain.AddBlock)
    cc,                   \* blocks whose CommitCertificate is not nil
    status,               \* ExtendedBlock.Status of each block
    highestCCBlock,
    lastFinalizedBlock,
    tip,
    epoch,
    incoming,             \* e.incoming, a buffered channel
    sending,              \* the message a producer is blocked sending
    finalizedBlocks,      \* e.finalizedBlocks, a buffered channel
    epochC,               \* epochManager.C: 0 when empty, else the advance
    mgrEpoch,             \* the epoch manager's own epoch
    ctxDone,              \* ctx.Done() is closed
    running,              \* mainLoop has not returned
    calls,                \* calls made while handling the last event
    everFinalized,        \* every value lastFinalizedBlock has taken
    everPublished,        \* every block sent on e.finalizedBlocks
    proposerStrategy,     \* e.proposerStrategy: 0 is the default instance
    replicaStrategy,      \* e.replicaStrategy: 0 is the default instance
    entering,             \* the epoch enterNewEpoch is half-way through
                          \* entering, 0 when the main loop is at its select
    blk,                  \* the blocks of package core, header and cache
    mempool,              \* the transactions the mempool holds
    rpc,                  \* the last call of BroadcastRawTransaction
    mmp                   \* the message the mempool's handler works on

vars == <<chain, cc, status, highestCCBlock, lastFinalizedBlock, tip, epoch,
          incoming, sending, finalizedBlocks, epochC, mgrEpoch, ctxDone,
          running, calls, everFinalized, everPublished, proposerStrategy,
          replicaStrategy,
          entering, blk, mempool, rpc, mmp>>

\* The variables of package consensus.
engineVars ==
    <<chain, cc, status, highestCCBlock, lastFinalizedBlock, tip, epoch,
      incoming, sending, finalizedBlocks, epochC, mgrEpoch, ctxDone, running,
      calls, everFinalized, everPublished, proposerStrategy,
          replicaStrategy, entering>>

\* The variables of the other packages.
otherVars == <<blk, mempool, rpc, mmp>>

strategyVars == <<proposerStrategy, replicaStrategy, entering>>

\* The fields the handlers read and write, as one record.
Eng ==
    [chain |-> chain, cc |-> cc, status |-> status,
     highestCCBlock |-> highestCCBlock,
     lastFinalizedBlock |-> lastFinalizedBlock, tip |-> tip, epoch |-> epoch,
     finalizedBlocks |-> finalizedBlocks, epochC |-> epochC,
     mgrEpoch |-> mgrEpoch, running |-> running, calls |-> <<>>,
     everFinalized |-> everFinalized, everPublished |-> everPublished]

\* The handler has run to completion: its result becomes the state.
Commit(s) ==
    /\ chain' = s.chain
    /\ cc' = s.cc
    /\ status' = s.status
    /\ highestCCBlock' = s.highestCCBlock
    /\ lastFinalizedBlock' = s.lastFinalizedBlock
    /\ tip' = s.tip
    /\ epoch' = s.epoch
    /\ finalizedBlocks' = s.finalizedBlocks
    /\ epochC' = s.epochC
    /\ mgrEpoch' = s.mgrEpoch
    /\ running' = s.running
    /\ calls' = s.calls
    /\ everFinalized' = s.everFinalized
    /\ everPublished' = s.everPublished

Called(s, name, arg) == [s EXCEPT !.calls = Append(@, <<name, arg>>)]

Max(a, b) == IF a >= b THEN a ELSE b

\* NewEngine: the three pointers at the root, epoch 0, empty channels.
Init ==
    /\ chain = {Root}
    /\ cc = {}
    /\ status = [b \in Blocks |->
                    IF b = Root THEN BlockStatusFinalized
                    ELSE BlockStatusPending]
    /\ highestCCBlock = Root
    /\ lastFinalizedBlock = Root
    /\ tip = Root
    /\ epoch = 0
    /\ incoming = <<>>
    /\ sending = NoMsg
    /\ finalizedBlocks = <<>>
    /\ epochC = 0
    /\ mgrEpoch = 0
    /\ ctxDone = FALSE
    /\ running = TRUE
    /\ calls = <<>>
    /\ everFinalized = {Root}
    /\ everPublished = {}
    /\ proposerStrategy = 0
    /\ replicaStrategy = 0
    /\ entering = 0
    /\ blk = [o \in BlockObjects |-> NewBlock]
    /\ mempool = <<>>
    /\ rpc = [args |-> <<>>, TxHash |-> EmptyString, err |-> Nil, inserted |-> <<>>]
    /\ mmp = [op |-> "none", raw |-> <<>>, message |-> NoMessage,
              parseErr |-> Nil, handleErr |-> Nil, panic |-> FALSE,
              processed |-> <<>>]

(* ----------------------- the epoch manager --------------------------- *)
\* EpochManager.SetEpoch: an epoch above the manager's own makes it advance
\* at once; pending advances in the channel collapse to the largest.
SetEpoch(s, e) ==
    LET t == Called(s, "epochManager.SetEpoch", e)
    IN  IF e > t.mgrEpoch
        THEN [t EXCEPT !.mgrEpoch = e, !.epochC = Max(t.epochC, e)]
        ELSE t

(* -------------------------- engine handlers --------------------------- *)
\* setTip: the deepest descendant of highestCCBlock becomes the tip.
setTip(s) ==
    [s EXCEPT !.tip = FindDeepestDescendant(s.chain, s.highestCCBlock)]

\* ProposerStrategy.EnterNewEpoch: the leader of the epoch sets the tip and
\* proposes on it (the proposal leaves through the network).
proposerEnterNewEpoch(s, e) ==
    LET t == Called(s, "proposerStrategy.EnterNewEpoch", e)
    IN  IF IsLeader(e) THEN setTip(t) ELSE t

\* ReplicaStrategy.EnterNewEpoch
replicaEnterNewEpoch(s, e) == Called(s, "replicaStrategy.EnterNewEpoch", e)

\* enterNewEpoch that forgets to notify the replica strategy.
enterNewEpochProposerOnly(s, newEpoch) ==
    proposerEnterNewEpoch([s EXCEPT !.epoch = newEpoch], newEpoch)

enterNewEpoch(s, newEpoch) ==
    replicaEnterNewEpoch(
        proposerEnterNewEpoch([s EXCEPT !.epoch = newEpoch], newEpoch),
        newEpoch)

\* A plain send on a channel without buffer: with nobody receiving, the main
\* loop stays in the send.
publishBlocking(s, block) == [s EXCEPT !.running = FALSE]

\* A send on e.finalizedBlocks that enqueues whatever the buffer holds.
publishAlways(s, block) == [s EXCEPT !.finalizedBlocks = Append(@, block)]

\* The non-blocking send on e.finalizedBlocks: dropped when the buffer is full.
publish(s, block) ==
    IF Len(s.finalizedBlocks) < FinalizedCap
    THEN [s EXCEPT !.finalizedBlocks = Append(@, block),
                   !.everPublished = @ \cup {block}]
    ELSE s

\* finalizeBlock without the test that skips the last finalized block.
finalizeBlockNoSkip(s, block) ==
    LET t == Called(s, "finalizeBlock", block)
        u == Called(t, "log.Info Finalizing block", block)
    IN  publish([u EXCEPT !.lastFinalizedBlock = block,
                          !.everFinalized = @ \cup {block}], block)

finalizeBlock(s, block) ==
    LET t == Called(s, "finalizeBlock", block)
        u == Called(t, "log.Info Finalizing block", block)
    IN  IF Hash(block) = Hash(t.lastFinalizedBlock)
        THEN t
        ELSE publish([u EXCEPT !.lastFinalizedBlock = block,
                               !.everFinalized = @ \cup {block}], block)

\* processCCBlock without the test of the parent's certificate.
processCCBlockNoParentCheck(s, ccBlock) ==
    LET s0 == Called(s, "processCCBlock", ccBlock)
        s1 == IF Height(ccBlock) > Height(s0.highestCCBlock)
              THEN [s0 EXCEPT !.highestCCBlock = ccBlock]
              ELSE s0
        s2 == finalizeBlock(s1, Parent(ccBlock))
    IN  IF Epoch(ccBlock) >= s2.epoch
        THEN SetEpoch(enterNewEpoch(s2, Epoch(ccBlock) + 1), Epoch(ccBlock) + 1)
        ELSE s2

\* processCCBlock that finalizes the block itself instead of its parent.
processCCBlockFinalizesSelf(s, ccBlock) ==
    LET s0 == Called(s, "processCCBlock", ccBlock)
        s1 == IF Height(ccBlock) > Height(s0.highestCCBlock)
              THEN [s0 EXCEPT !.highestCCBlock = ccBlock]
              ELSE s0
        s2 == IF Parent(ccBlock) \in s1.cc
              THEN finalizeBlock(s1, ccBlock)
              ELSE s1
    IN  IF Epoch(ccBlock) >= s2.epoch
        THEN SetEpoch(enterNewEpoch(s2, Epoch(ccBlock) + 1), Epoch(ccBlock) + 1)
        ELSE s2

\* processCCBlock that takes a block of equal height as the highest one.
processCCBlockEqualHeight(s, ccBlock) ==
    LET s0 == Called(s, "processCCBlock", ccBlock)
        s1 == IF Height(ccBlock) >= Height(s0.highestCCBlock)
              THEN [s0 EXCEPT !.highestCCBlock = ccBlock]
              ELSE s0
        s2 == IF Parent(ccBlock) \in s1.cc
              THEN finalizeBlock(s1, Parent(ccBlock))
              ELSE s1
    IN  IF Epoch(ccBlock) >= s2.epoch
        THEN SetEpoch(enterNewEpoch(s2, Epoch(ccBlock) + 1), Epoch(ccBlock) + 1)
        ELSE s2

\* processCCBlock(ccBlock); the caller has attached the certificate.
processCCBlock(s, ccBlock) ==
    LET s0 == Called(s, "processCCBlock", ccBlock)
        s1 == IF Height(ccBlock) > Height(s0.highestCCBlock)
              THEN [s0 EXCEPT !.highestCCBlock = ccBlock]
              ELSE s0
        s2 == IF Parent(ccBlock) \in s1.cc
              THEN finalizeBlock(s1, Parent(ccBlock))
              ELSE s1
    IN  IF Epoch(ccBlock) >= s2.epoch
        THEN SetEpoch(enterNewEpoch(s2, Epoch(ccBlock) + 1), Epoch(ccBlock) + 1)
        ELSE s2

(* --------------------------- the strategies --------------------------- *)
\* What the replica strategy finds in a proposal: nothing usable ("drop": a
\* bad signature, a wrong proposer), a block ("add"), or a block together
\* with the commit certificate of its parent ("addcc").
Outcomes == {"drop", "add", "addcc"}

\* chain.AddBlock: a block is inserted, Pending, under a parent that is in
\* the tree.
AddBlock(s, b) ==
    IF Parent(b) \in s.chain /\ b \notin s.chain
    THEN [s EXCEPT !.chain = @ \cup {b}, !.status[b] = BlockStatusPending]
    ELSE s

\* A commit certificate forms for block b, once: it is attached to the
\* block, which becomes Committed, and handed to the engine.
CommitCertificate(s, b) ==
    IF b \in s.chain /\ b # Root /\ b \notin s.cc
    THEN processCCBlock([s EXCEPT !.cc = @ \cup {b},
                                  !.status[b] = BlockStatusCommitted], b)
    ELSE s

\* ReplicaStrategy.HandleProposal
replicaHandleProposal(s, b, outcome) ==
    LET t == Called(s, "replicaStrategy.HandleProposal", b)
        u == IF outcome = "drop" THEN t ELSE AddBlock(t, b)
    IN  IF outcome = "addcc" /\ b \in u.chain
        THEN CommitCertificate(u, Parent(b))
        ELSE u

\* ProposerStrategy.HandleVote: the vote may complete a quorum for its block.
proposerHandleVote(s, b, quorum) ==
    LET t == Called(s, "proposerStrategy.HandleVote", b)
    IN  IF quorum THEN CommitCertificate(t, b) ELSE t

handleProposal(s, b, outcome) == replicaHandleProposal(s, b, outcome)

\* handleVote that hands the vote to the replica strategy.
handleVoteToReplica(s, b, quorum) ==
    replicaHandleProposal(s, b, IF quorum THEN "addcc" ELSE "drop")

handleVote(s, b, quorum) == proposerHandleVote(s, b, quorum)

(* ------------------------------ actions ------------------------------- *)
\* HandleMessage: e.incoming <- msg, a send that waits while the buffer is full.
HandleMessage(m) ==
    /\ sending = NoMsg
    /\ IF Len(incoming) < IncomingCap
       THEN incoming' = Append(incoming, m) /\ sending' = sending
       ELSE incoming' = incoming /\ sending' = m
    /\ UNCHANGED <<chain, cc, status, highestCCBlock, lastFinalizedBlock, tip, epoch,
                   finalizedBlocks, epochC, mgrEpoch, ctxDone, running,
                   calls, everFinalized, everPublished>>
    /\ UNCHANGED <<strategyVars, otherVars>>

\* The waiting send completes once the buffer has room.
HandleMessageResume ==
    /\ sending # NoMsg
    /\ Len(incoming) < IncomingCap
    /\ incoming' = Append(incoming, sending)
    /\ sending' = NoMsg
    /\ UNCHANGED <<chain, cc, status, highestCCBlock, lastFinalizedBlock, tip, epoch,
                   finalizedBlocks, epochC, mgrEpoch, ctxDone, running,
                   calls, everFinalized, everPublished>>
    /\ UNCHANGED <<strategyVars, otherVars>>

\* mainLoop, case msg := <-e.incoming
MainLoopIncoming ==
    /\ running
    /\ entering = 0
    /\ incoming # <<>>
    /\ LET m == Head(incoming)
       IN  CASE m.type = "Proposal" ->
                  \E o \in Outcomes : Commit(handleProposal(Eng, m.block, o))
             [] m.type = "Vote" ->
                  \E q \in BOOLEAN : Commit(handleVote(Eng, m.block, q))
             [] OTHER -> Commit(Eng)
    /\ incoming' = Tail(incoming)
    /\ UNCHANGED <<sending, ctxDone>>
    /\ UNCHANGED <<strategyVars, otherVars>>

\* mainLoop, case newEpoch := <-e.epochManager.C
MainLoopEpoch ==
    /\ running
    /\ entering = 0
    /\ epochC # 0
    /\ Commit(enterNewEpoch([Eng EXCEPT !.epochC = 0], epochC))
    /\ UNCHANGED <<incoming, sending, ctxDone>>
    /\ UNCHANGED <<strategyVars, otherVars>>

\* mainLoop, case <-ctx.Done()
MainLoopExit ==
    /\ running
    /\ entering = 0
    /\ ctxDone
    /\ running' = FALSE
    /\ UNCHANGED <<chain, cc, status, highestCCBlock, lastFinalizedBlock, tip, epoch,
                   incoming, sending, finalizedBlocks, epochC, mgrEpoch,
                   ctxDone, calls, everFinalized, everPublished>>
    /\ UNCHANGED <<strategyVars, otherVars>>

\* mainLoop, case newEpoch := <-e.epochManager.C, up to the return of
\* e.proposerStrategy.EnterNewEpoch.
MainLoopEpochBegin ==
    /\ running
    /\ entering = 0
    /\ epochC # 0
    /\ Commit(proposerEnterNewEpoch(
                  [Eng EXCEPT !.epochC = 0, !.epoch = epochC], epochC))
    /\ entering' = epochC
    /\ UNCHANGED <<incoming, sending, ctxDone, proposerStrategy,
                   replicaStrategy, otherVars>>

\* enterNewEpoch goes on: it reads e.replicaStrategy and calls EnterNewEpoch.
MainLoopEpochEnd ==
    /\ entering # 0
    /\ Commit(replicaEnterNewEpoch([Eng EXCEPT !.calls = calls], entering))
    /\ entering' = 0
    /\ UNCHANGED <<incoming, sending, ctxDone, proposerStrategy,
                   replicaStrategy, otherVars>>

\* SetProposerStrategy, called from any goroutine: s.Init(e), then the
\* assignment of the field, under no lock.
SetProposerStrategy(s) ==
    /\ proposerStrategy' = s
    /\ UNCHANGED <<chain, cc, status, highestCCBlock, lastFinalizedBlock, tip, epoch,
                   incoming, sending, finalizedBlocks, epochC, mgrEpoch,
                   ctxDone, running, calls, everFinalized, everPublished,
                   replicaStrategy, entering, otherVars>>

\* SetReplicaStrategy, called from any goroutine.
SetReplicaStrategy(s) ==
    /\ replicaStrategy' = s
    /\ UNCHANGED <<chain, cc, status, highestCCBlock, lastFinalizedBlock, tip, epoch,
                   incoming, sending, finalizedBlocks, epochC, mgrEpoch,
                   ctxDone, running, calls, everFinalized, everPublished,
                   proposerStrategy, entering, otherVars>>

\* The context given to Start is cancelled.
Cancel ==
    /\ ~ctxDone
    /\ ctxDone' = TRUE
    /\ UNCHANGED <<chain, cc, status, highestCCBlock, lastFinalizedBlock, tip, epoch,
                   incoming, sending, finalizedBlocks, epochC, mgrEpoch,
                   running, calls, everFinalized, everPublished>>
    /\ UNCHANGED <<strategyVars, otherVars>>

\* The epoch manager's timer fires: it advances and emits the new epoch.
Tick ==
    /\ ~ctxDone
    /\ mgrEpoch < MaxEpoch
    /\ mgrEpoch' = mgrEpoch + 1
    /\ epochC' = Max(epochC, mgrEpoch + 1)
    /\ UNCHANGED <<chain, cc, status, highestCCBlock, lastFinalizedBlock, tip, epoch,
                   incoming, sending, finalizedBlocks, ctxDone, running,
                   calls, everFinalized, everPublished>>
    /\ UNCHANGED <<strategyVars, otherVars>>

\* A consumer of FinalizedBlocks() receives the oldest block.
Consume ==
    /\ finalizedBlocks # <<>>
    /\ finalizedBlocks' = Tail(finalizedBlocks)
    /\ UNCHANGED <<chain, cc, status, highestCCBlock, lastFinalizedBlock, tip, epoch,
                   incoming, sending, epochC, mgrEpoch, ctxDone, running,
                   calls, everFinalized, everPublished>>
    /\ UNCHANGED <<strategyVars, otherVars>>

\* A producer calls HandleMessage while the queue is empty: its send does
\* not wait.
HandleMessageEmptyQueue ==
    /\ incoming = <<>>
    /\ \E m \in Messages : HandleMessage(m)

\* The engine fed one message at a time, with the timer and a consumer of the
\* finalized blocks; the context is never cancelled.
Next ==
    \/ HandleMessageEmptyQueue
    \/ MainLoopIncoming
    \/ MainLoopEpoch
    \/ Tick
    \/ Consume

Spec == Init /\ [][Next]_vars

\* The engine with producers that call HandleMessage at any time, and with
\* cancellation; nobody reads the finalized blocks and the timer is stopped.
NextQueue ==
    \/ \E m \in QueueMessages : HandleMessage(m)
    \/ HandleMessageResume
    \/ MainLoopIncoming
    \/ MainLoopEpoch
    \/ MainLoopExit
    \/ Cancel

SpecQueue == Init /\ [][NextQueue]_vars

\* A producer calls HandleMessage with a message of LiveMessages while the
\* queue is empty.
HandleMessageLive ==
    /\ incoming = <<>>
    /\ \E m \in LiveMessages : HandleMessage(m)

\* The engine fed one message at a time, with cancellation; nobody reads the
\* finalized blocks.  The Go scheduler runs the main
\* loop whenever it can run, and its select takes a case that stays ready:
\* weak fairness on each case of the select.
NextLive ==
    \/ HandleMessageLive
    \/ MainLoopIncoming
    \/ MainLoopEpoch
    \/ MainLoopExit
    \/ Cancel

SpecLive ==
    /\ Init
    /\ [][NextLive]_vars
    /\ WF_vars(MainLoopIncoming)
    /\ WF_vars(MainLoopEpoch)
    /\ WF_vars(MainLoopExit)

\* The engine fed one message at a time while other goroutines replace its
\* strategies; enterNewEpoch is taken call by call.
NextSwap ==
    \/ HandleMessageLive
    \/ MainLoopIncoming
    \/ MainLoopEpochBegin
    \/ MainLoopEpochEnd
    \/ \E s \in 0..NumStrategies : SetProposerStrategy(s)
    \/ \E s \in 0..NumStrategies : SetReplicaStrategy(s)

SpecSwap == Init /\ [][NextSwap]_vars

(* --------------------------- core: actions --------------------------- *)
\* A caller assigns the exported field Epoch or Height of a block's header.
SetHeaderField(o, f, v) ==
    /\ blk' = [blk EXCEPT ![o][f] = v]
    /\ UNCHANGED <<engineVars, mempool, rpc, mmp>>

\* A caller appends a transaction to b.Txs.
AppendTx(o) ==
    /\ Len(blk[o].Txs) < MaxTxs
    /\ blk' = [blk EXCEPT ![o].Txs = Append(@, Len(@))]
    /\ UNCHANGED <<engineVars, mempool, rpc, mmp>>

\* A caller calls Hash() on the block: the value returned is cached.
CallHash(o) ==
    /\ blk' = [blk EXCEPT ![o].hash = HeaderHash(blk[o])]
    /\ UNCHANGED <<engineVars, mempool, rpc, mmp>>

\* Callers that build blocks and hash them.
NextHash ==
    \/ \E o \in BlockObjects, f \in {"Epoch", "Height"}, v \in 0..MaxField :
           SetHeaderField(o, f, v)
    \/ \E o \in BlockObjects : AppendTx(o)
    \/ \E o \in BlockObjects : CallHash(o)

SpecHash == Init /\ [][NextHash]_vars

(* ---------------------------- rpc: actions --------------------------- *)
\* A client calls BroadcastRawTransaction with tx_bytes = a and an empty
\* result.
BroadcastRawTransaction(a) ==
    \E accept \in BOOLEAN :
        LET r == broadcastRawTransaction(mempool, a, EmptyString, accept)
        IN  /\ mempool' = r.mempool
            /\ rpc' = [args |-> a, TxHash |-> r.TxHash, err |-> r.err,
                       inserted |-> r.inserted]
            /\ UNCHANGED <<engineVars, blk, mmp>>

\* A transaction leaves the mempool.
MempoolRemove ==
    /\ mempool # <<>>
    /\ mempool' = Tail(mempool)
    /\ UNCHANGED <<engineVars, blk, rpc, mmp>>

NextRpc ==
    \/ \E a \in HexStrings : BroadcastRawTransaction(a)
    \/ MempoolRemove

SpecRpc == Init /\ [][NextRpc]_vars

(* -------------------------- mempool: actions -------------------------- *)
\* The network hands raw bytes received from a peer on a channel to
\* ParseMessage; a process that has panicked takes no further message.
MempoolParseMessage(peerID, channelID, raw) ==
    LET r == mmpParseMessage(peerID, channelID, raw)
    IN  /\ ~mmp.panic
        /\ mmp' = [op |-> "ParseMessage", raw |-> raw, message |-> r.message,
                   parseErr |-> r.err, handleErr |-> Nil, panic |-> FALSE,
                   processed |-> <<>>]
        /\ UNCHANGED <<engineVars, blk, mempool, rpc>>

\* The message ParseMessage returned without error is handed to
\* HandleMessage.
MempoolHandleMessage ==
    /\ mmp.op = "ParseMessage"
    /\ mmp.parseErr = Nil
    /\ \E accept \in BOOLEAN :
           LET r == mmpHandleMessage(mempool, mmp.message, accept)
           IN  /\ mempool' = r.mempool
               /\ mmp' = [mmp EXCEPT !.op = "HandleMessage",
                                     !.handleErr = r.err,
                                     !.panic = r.panic,
                                     !.processed = r.processed]
    /\ UNCHANGED <<engineVars, blk, rpc>>

\* The mempool's handler fed by the network.
NextHandler ==
    \/ \E p \in PeerIDs, c \in ChannelIDs, raw \in RawMessages :
           MempoolParseMessage(p, c, raw)
    \/ MempoolHandleMessage

SpecHandler == Init /\ [][NextHandler]_vars

(* ------------------------- auxiliary operators ------------------------ *)
\* The arguments of the calls named `name` made while handling the last event.
CallArgs(c, name) == {c[i][2] : i \in {j \in 1..Len(c) : c[j][1] = name}}

\* The calls that announce an epoch, in the order they were made.
EpochCalls(c) ==
    SelectSeq(c, LAMBDA x : x[1] \in {"proposerStrategy.EnterNewEpoch",
                                      "replicaStrategy.EnterNewEpoch",
                                      "epochManager.SetEpoch"})

\* The nearest ancestor of x (x excluded) that has been finalized.
RECURSIVE NearestFinalized(_, _)
NearestFinalized(fin, x) ==
    IF x = Root THEN Root
    ELSE IF Parent(x) \in fin THEN Parent(x)
    ELSE NearestFinalized(fin, Parent(x))

\* The blocks from the child of a down to x, a being an ancestor of x.
RECURSIVE PathFrom(_, _)
PathFrom(a, x) == IF x = a THEN <<>> ELSE Append(PathFrom(a, Parent(x)), x)

\* The ancestors of b other than b and the root.
InnerAncestors(b) == {a \in 1..MaxBlock : a # b /\ IsAncestor(a, b)}

(* ------------------------------- claims ------------------------------- *)
\* C1: the blocks that were ever assigned to lastFinalizedBlock hold at most
\* one block per height and lie on one non-branching parent chain.
C1_FinalizedSingleChain ==
    \A x, y \in everFinalized :
        /\ Height(x) = Height(y) => x = y
        /\ IsAncestor(x, y) \/ IsAncestor(y, x)

\* C2: whenever lastFinalizedBlock changes, its new value is a descendant of
\* its old value.
C2_AncestorMonotonicity ==
    [][IsAncestor(lastFinalizedBlock, lastFinalizedBlock')]_vars

\* C3: lastFinalizedBlock is an ancestor of (or equal to) both tip and
\* highestCCBlock.
C3_FinalizedBelowTipAndHighestCC ==
    /\ IsAncestor(lastFinalizedBlock, tip)
    /\ IsAncestor(lastFinalizedBlock, highestCCBlock)

\* C4: every block lastFinalizedBlock was set to, the root apart, has a commit
\* certificate and a direct child with a commit certificate; processCCBlock(B)
\* calls finalizeBlock exactly when B.parent has a commit certificate, on
\* B.parent and on no other block.
C4_TwoChainRule ==
    /\ \A x \in everFinalized \ {Root} :
           x \in cc /\ \E c \in cc : c # Root /\ Parent(c) = x
    /\ \A b \in CallArgs(calls, "processCCBlock") :
           /\ Parent(b) \in cc <=> Parent(b) \in CallArgs(calls, "finalizeBlock")
           /\ CallArgs(calls, "finalizeBlock") \subseteq {Parent(b)}
    /\ CallArgs(calls, "processCCBlock") = {}
           => CallArgs(calls, "finalizeBlock") = {}

\* A certificate was processed whose parent had one: the parent was finalized.
C4_Witness ==
    /\ lastFinalizedBlock # Root
    /\ \E b \in CallArgs(calls, "processCCBlock") :
           lastFinalizedBlock = Parent(b)
               /\ Parent(b) \in CallArgs(calls, "finalizeBlock")

\* C5: on a single chain whose certificates so far are those of the blocks
\* below b, the step that processes the certificate of b at height n >= 2
\* (the only step that attaches one: b \notin cc, b \in cc') leaves
\* lastFinalizedBlock at b's parent (height n - 1) and highestCCBlock at b.
C5_StraightLine ==
    [][\A b \in 1..MaxBlock :
          (/\ b \notin cc
           /\ b \in cc'
           /\ Height(b) >= 2
           /\ cc = InnerAncestors(b))
          => (lastFinalizedBlock' = Parent(b) /\ highestCCBlock' = b)]_vars

\* B1 then its child B3 were certified: B1 is final, B3 the highest CC.
C5_Witness ==
    /\ cc = {1, 3}
    /\ 3 \in CallArgs(calls, "processCCBlock")
    /\ lastFinalizedBlock = 1
    /\ highestCCBlock = 3

\* C6: a finalizeBlock that moves lastFinalizedBlock to X publishes, in order,
\* every block from the child of X's nearest finalized ancestor up to X
\* (when the stream has room for them).
C6_PublishesWholePath ==
    [][lastFinalizedBlock' # lastFinalizedBlock =>
          LET x == lastFinalizedBlock'
              path == PathFrom(NearestFinalized(everFinalized, x), x)
          IN  Len(finalizedBlocks) + Len(path) <= FinalizedCap
                  => finalizedBlocks' = finalizedBlocks \o path]_vars

\* C7: after processCCBlock, tip is FindDeepestDescendant(highestCCBlock) and
\* a descendant of highestCCBlock.
C7_TipFollowsHighestCC ==
    CallArgs(calls, "processCCBlock") # {} =>
        /\ tip = FindDeepestDescendant(chain, highestCCBlock)
        /\ IsAncestor(highestCCBlock, tip)

\* C8: processCCBlock(B) with B.Epoch >= epoch sets epoch to B.Epoch + 1 and
\* calls EnterNewEpoch(B.Epoch + 1) on the proposer and the replica strategy
\* and SetEpoch(B.Epoch + 1) on the epoch manager; with B.Epoch < epoch it
\* leaves the epoch alone and makes none of these calls.
C8_EpochAdvanceOnCC ==
    [][MainLoopIncoming =>
          \A b \in CallArgs(calls', "processCCBlock") :
              IF Epoch(b) >= epoch
              THEN /\ epoch' = Epoch(b) + 1
                   /\ EpochCalls(calls') =
                        << <<"proposerStrategy.EnterNewEpoch", Epoch(b) + 1>>,
                           <<"replicaStrategy.EnterNewEpoch", Epoch(b) + 1>>,
                           <<"epochManager.SetEpoch", Epoch(b) + 1>> >>
              ELSE /\ epoch' = epoch
                   /\ EpochCalls(calls') = <<>>]_vars

\* A certificate of a block of the current or a later epoch was processed.
C8_Witness ==
    \E b \in CallArgs(calls, "processCCBlock") :
        /\ epoch = Epoch(b) + 1
        /\ Epoch(b) + 1 \in CallArgs(calls, "replicaStrategy.EnterNewEpoch")
        /\ Epoch(b) + 1 \in CallArgs(calls, "epochManager.SetEpoch")

\* C9: the epoch never decreases, and an advance taken from the epoch channel
\* that is not above the current epoch is dropped: the epoch stays and
\* EnterNewEpoch is called on neither strategy.
C9_StaleAdvanceDropped ==
    [][/\ epoch' >= epoch
       /\ (MainLoopEpoch /\ epochC <= epoch)
              => (epoch' = epoch /\ EpochCalls(calls') = <<>>)]_vars

\* C10: a HandleMessage that finds the inbound queue full returns at once,
\* the message dropped and the queue as it was.
C10_FullQueueDrops ==
    [][\A m \in Messages :
          (HandleMessage(m) /\ Len(incoming) >= IncomingCap)
              => (incoming' = incoming /\ sending' = NoMsg)]_vars

\* C11: a finalizeBlock that finds the finalized-blocks stream full still
\* sets lastFinalizedBlock to its block and returns with the stream as it was
\* (the block is dropped from the stream); the main loop has taken the event
\* off the queue and goes on running.
C11_FullStreamDrops ==
    [][(/\ incoming # <<>>
        /\ incoming' = Tail(incoming)
        /\ Len(finalizedBlocks) >= FinalizedCap)
          => /\ Len(finalizedBlocks) = FinalizedCap
             /\ running'
             /\ \A b \in CallArgs(calls', "finalizeBlock") :
                    Hash(b) # Hash(lastFinalizedBlock)
                        => /\ lastFinalizedBlock' = b
                           /\ b \in everFinalized'
                           /\ finalizedBlocks' = finalizedBlocks]_vars

\* The stream is full and the block finalized by the last event, finalized
\* by that event only (it has one certified child), is not in the stream.
C11_Witness ==
    /\ Len(finalizedBlocks) = FinalizedCap
    /\ lastFinalizedBlock # Root
    /\ lastFinalizedBlock \in CallArgs(calls, "finalizeBlock")
    /\ Cardinality({c \in cc : Parent(c) = lastFinalizedBlock}) = 1
    /\ \A i \in 1..Len(finalizedBlocks) :
           finalizedBlocks[i] # lastFinalizedBlock

\* C12: once ctx.Done() is closed the main loop takes no further message from
\* the inbound queue and no further advance from the epoch channel, even
\* when they are not empty.
C12_NoEventAfterCancel ==
    [][ctxDone =>
          /\ ~(incoming # <<>> /\ incoming' = Tail(incoming))
          /\ ~(epochC # 0 /\ epochC' = 0)]_vars

C14_NoChangeDuringEvent ==
    [][(entering # 0 /\ entering' # 0) =>
          UNCHANGED <<proposerStrategy, replicaStrategy, epoch,
                      highestCCBlock, lastFinalizedBlock, tip>>]_vars

\* C15: the status of a block never goes back (Pending, Committed,
\* Finalized), a block that holds a commit certificate is at least Committed,
\* and every block finalizeBlock has set lastFinalizedBlock to is Finalized.
C15_StatusLifecycle ==
    [][/\ \A b \in Blocks : status'[b] >= status[b]
       /\ \A b \in cc' : status'[b] >= BlockStatusCommitted
       /\ \A b \in everFinalized' :
              status'[b] = BlockStatusFinalized]_vars

\* C16: two blocks whose eight header fields are equal have equal hashes,
\* whatever their transactions; and Hash() called on a block, its header
\* left as it is, returns what it returned before.
C16_HashOfHeaderOnly ==
    [][/\ \A o, q \in BlockObjects :
              rlpEncodeToBytes(blk'[o]) = rlpEncodeToBytes(blk'[q])
                  => HeaderHash(blk'[o]) = HeaderHash(blk'[q])
       /\ \A o \in BlockObjects :
              (CallHash(o) /\ blk[o].hash # EmptyHash)
                  => HeaderHash(blk'[o]) = blk[o].hash]_vars

\* The strings that are hex: an even number of hex digits.
IsHex(a) == Len(a) % 2 = 0 /\ \A i \in 1..Len(a) : a[i] \in {"0", "a"}

\* The bytes a hex string stands for.
BytesOf(a) ==
    [i \in 1..(Len(a) \div 2) |->
        16 * fromHexChar(a[2 * i - 1]) + fromHexChar(a[2 * i])]

\* C17: BroadcastRawTransaction with a valid hex string passes exactly the
\* decoded bytes to the mempool's InsertTransaction (the mempool holds them
\* when no error is returned) and sets the hash to the keccak-256 hash of
\* those bytes; with an invalid hex string it returns an error, calls no
\* InsertTransaction, leaves the mempool as it was and sets no hash.
C17_BroadcastRawTransaction ==
    [][LET a == rpc'.args
       IN  BroadcastRawTransaction(a) =>
              IF IsHex(a)
              THEN /\ rpc'.inserted = <<BytesOf(a)>>
                   /\ rpc'.TxHash = Hex(Keccak256Hash(BytesOf(a)))
                   /\ IF rpc'.err = Nil
                      THEN mempool' = Append(mempool, BytesOf(a))
                      ELSE mempool' = mempool
              ELSE /\ rpc'.err # Nil
                   /\ rpc'.inserted = <<>>
                   /\ mempool' = mempool
                   /\ rpc'.TxHash = EmptyString]_vars

\* A call with a string that is no hex has failed, after a call that put a
\* transaction of at least one byte into the mempool.
C17_Witness ==
    /\ ~IsHex(rpc.args)
    /\ rpc.err # Nil
    /\ rpc.TxHash = EmptyString
    /\ mempool # <<>>
    /\ Len(mempool[1]) > 0

\* The number of calls named `name` made while handling the last event.
CallCount(c, name) == Cardinality({i \in 1..Len(c) : c[i][1] = name})

\* C18: the inbound queue is first in, first out: a message is added at its
\* end, and the message the main loop removes is its head.  A Proposal is
\* passed once to the replica strategy's HandleProposal and never to the
\* proposer strategy's HandleVote, a Vote once to HandleVote and never to
\* HandleProposal; a message of another type changes no engine state and
\* leaves the loop running.
C18_Dispatch ==
    [][/\ Len(incoming') > Len(incoming) =>
              /\ Len(incoming') = Len(incoming) + 1
              /\ SubSeq(incoming', 1, Len(incoming)) = incoming
       /\ Len(incoming') < Len(incoming) =>
              LET m == Head(incoming)
              IN  /\ incoming' = Tail(incoming)
                  /\ running'
                  /\ CASE m.type = "Proposal" ->
                            /\ calls'[1] =
                                   <<"replicaStrategy.HandleProposal", m.block>>
                            /\ CallCount(calls',
                                   "replicaStrategy.HandleProposal") = 1
                            /\ CallCount(calls',
                                   "proposerStrategy.HandleVote") = 0
                       [] m.type = "Vote" ->
                            /\ calls'[1] =
                                   <<"proposerStrategy.HandleVote", m.block>>
                            /\ CallCount(calls',
                                   "proposerStrategy.HandleVote") = 1
                            /\ CallCount(calls',
                                   "replicaStrategy.HandleProposal") = 0
                       [] OTHER ->
                            /\ calls' = <<>>
                            /\ UNCHANGED <<chain, cc, status, highestCCBlock,
                                           lastFinalizedBlock, tip, epoch,
                                           finalizedBlocks, epochC, mgrEpoch,
                                           everFinalized, everPublished,
                                           strategyVars>>]_vars

\* A vote was passed to the proposer strategy and certified block 1; later a
\* message of unknown type was taken and changed nothing, and the loop runs
\* on with a proposal at the head of the queue.
C18_Witness ==
    /\ running
    /\ cc = {1}
    /\ calls = <<>>
    /\ incoming # <<>>
    /\ Head(incoming).type = "Proposal"

\* C19: finalizeBlock(X) with X.hash equal to lastFinalizedBlock.hash is a
\* no-op: lastFinalizedBlock, highestCCBlock, tip, epoch, the finalized-blocks
\* stream and every other field of the engine are after the call what they
\* were before it.
C19_FinalizeSameBlockNoOp ==
    \A x \in chain :
        Hash(x) = Hash(lastFinalizedBlock)
            => [finalizeBlock(Eng, x) EXCEPT !.calls = <<>>] = Eng

\* The last event called finalizeBlock on the block that was already the
\* last finalized one: the call returned before its log line.
C19_Witness ==
    /\ lastFinalizedBlock \in CallArgs(calls, "finalizeBlock")
    /\ CallArgs(calls, "log.Info Finalizing block") = {}

\* C20: no block is sent on the finalized-blocks stream more than once: the
\* block a step adds to the stream has never been sent on it before.
C20_PublishedOnce ==
    [][Len(finalizedBlocks') > Len(finalizedBlocks) =>
          finalizedBlocks'[Len(finalizedBlocks')] \notin everPublished]_vars

\* C21: the height of highestCCBlock never decreases: a step that replaces
\* highestCCBlock puts there the block processCCBlock was called on, of a
\* height strictly above the old one; a processCCBlock on a block that is not
\* above highestCCBlock leaves it as it was; and highestCCBlock is the root
\* or a block that holds a commit certificate (processCCBlock has run on it).
C21_HighestCCMonotone ==
    [][/\ Height(highestCCBlock') >= Height(highestCCBlock)
       /\ highestCCBlock' # highestCCBlock =>
              /\ Height(highestCCBlock') > Height(highestCCBlock)
              /\ CallArgs(calls', "processCCBlock") = {highestCCBlock'}
       /\ \A b \in CallArgs(calls', "processCCBlock") :
              Height(b) <= Height(highestCCBlock)
                  => highestCCBlock' = highestCCBlock
       /\ highestCCBlock' = Root \/ highestCCBlock' \in cc']_vars

\* The last event processed the certificate of a block that is not above
\* highestCCBlock, a sibling of it: highestCCBlock was kept.
C21_Witness ==
    /\ highestCCBlock # Root
    /\ \E b \in CallArgs(calls, "processCCBlock") :
           /\ b # highestCCBlock
           /\ Height(b) = Height(highestCCBlock)
           /\ Parent(b) = Parent(highestCCBlock)

\* C22: in every state, Hash() of a block is the keccak-256 hash of the
\* encoding of the values its header fields hold now, also when a field was
\* assigned after an earlier call of Hash().
C22_HashOfCurrentHeader ==
    \A o \in BlockObjects :
        HeaderHash(blk[o]) = Keccak256Hash(rlpEncodeToBytes(blk[o]))

\* C23: a message of the transaction channel whose raw bytes fail to
\* deserialize is dropped: ParseMessage returns an error for it, and
\* ProcessTransaction is not called for it.
C23_MalformedDropped ==
    (/\ mmp.op # "none"
     /\ mmp.message.ChannelID = ChannelIDTransaction
     /\ rlpDecodeBytes(mmp.raw).err # Nil)
        => (mmp.parseErr # Nil /\ mmp.processed = <<>>)

\* C24: the message ParseMessage returned for raw bytes of the transaction
\* channel, handed to HandleMessage, makes it call ProcessTransaction once,
\* with the payload of that message, and return the result of that call;
\* a message of another channel makes it return an error without a call of
\* ProcessTransaction.
C24_ParseThenHandle ==
    [][(mmp.op = "ParseMessage" /\ mmp'.op = "HandleMessage") =>
          IF mmp.message.ChannelID = ChannelIDTransaction
          THEN /\ ~mmp'.panic
               /\ mmp'.processed = <<rlpDecodeBytes(mmp.raw).Payload>>
               /\ \E accept \in BOOLEAN :
                      ProcessTransaction(mempool, mmp.message.Content, accept)
                          = [mempool |-> mempool', err |-> mmp'.handleErr]
          ELSE /\ ~mmp'.panic
               /\ mmp'.handleErr # Nil
               /\ mmp'.processed = <<>>
               /\ mempool' = mempool]_vars

====
